---- MODULE Spec2Model ----
(***************************************************************************)
(* Model of mca_chunk_inspector.py: one invocation of main() on one region *)
(* file.  The region file is a byte sequence: a location table (one        *)
(* populated slot), zero timestamps, and a short run of bytes `data` at    *)
(* sector 2; every other byte is 0x00.  File positions, lengths and the    *)
(* 4 MiB / 8 MiB limits keep their real values.                            *)
(*                                                                         *)
(* gzip.decompress and zlib.decompress are modelled by what they accept    *)
(* among these files: the empty input and zero-padded runs of GZSTREAM for *)
(* gzip, an input that begins with an 8-byte empty zlib stream for zlib.   *)
(* parse_nbt_bytes returns a tree, returns None, or raises.  open, seek,   *)
(* read and write do not fail for reasons other than the ones the code     *)
(* tests; declared lengths stay below 2^31.                                *)
(***************************************************************************)
EXTENDS Integers, Sequences, FiniteSets, TLC

VARIABLES
    fsize,        \* size of the region file in bytes
    entry,        \* 32-bit location record stored in slot TABLE_SLOT
    data,         \* bytes of the file from DATA_POS on (clipped to fsize)
    cx, cz,       \* args.cx, args.cz
    rawNbtOut,    \* args.raw_nbt_out is set
    pc,           \* position in main / extract_chunk_raw_from_region
    found,        \* res['found']
    errors,       \* res['errors']
    offset_sector,\* res['offset_sector'] (NONE when the key is missing)
    sector_count, \* res['sector_count']
    length,       \* res['length']
    compression,  \* res['compression'], later main's comp_type
    compressed,   \* res['compressed_bytes'] as a range of the file
    raw_sector,   \* res['raw_sector_data'] as a range of the file
    decompressed, \* res['decompressed_bytes'], later main's decompressed
    reads,        \* f.read calls performed, in order
    attempts,     \* decompress calls made by main, in order
    parsed,       \* outcome of parse_nbt_bytes in main
    diag,         \* main's diag record (NoDiag before it is built)
    reportEmitted,\* diag was printed or written to args.out
    outWritten,   \* args.out was written
    artifacts     \* side files written by main

vars == << fsize, entry, data, cx, cz, rawNbtOut, pc, found, errors,
           offset_sector, sector_count, length, compression, compressed,
           raw_sector, decompressed, reads, attempts, parsed,
           diag, reportEmitted, outWritten, artifacts >>

----------------------------------------------------------------------------
(* Program constants *)

SECTOR == 4096
HEADER_SIZE == 8192
TABLE_ENTRIES == 1024
SCAN_LIMIT == 1024 * 1024 * 4
TAIL_LIMIT == 8 * 1024 * 1024
LOOKAHEAD == 32
DIAG_CAP == 10

(* Model bounds and input sets *)

MaxPieces == 2
TABLE_SLOT == 1 + 31 * 32         \* the populated slot: chunk_index(33, -1)
DATA_POS == 2 * SECTOR            \* where `data` sits in the file
NONE == -1                        \* Python None for integer fields
NoRange == << "none", 0, 0 >>     \* Python None / missing key for bytes

Min(a, b) == IF a < b THEN a ELSE b
Max(a, b) == IF a > b THEN a ELSE b

\* shortest well-formed streams (both decompress to b"")
ZSTREAM == << 120, 156, 3, 0, 0, 0, 0, 1 >>
GZSTREAM == << 31, 139, 8, 0, 0, 0, 0, 0, 0, 0, 3, 0, 0, 0, 0, 0, 0, 0, 0, 0 >>
GAP == [i \in 1..LOOKAHEAD |-> 0]
PIECES == { << 120 >>, << 120, 218 >>, ZSTREAM, << 31, 139 >>, GZSTREAM, GAP }
TAGS == { 1, 2, 120 }
SIZES == { SECTOR, HEADER_SIZE, DATA_POS + 9, 3 * SECTOR - 1,
           DATA_POS + SCAN_LIMIT + SECTOR, DATA_POS + TAIL_LIMIT + SECTOR }
ENTRIES == { 5, 1 * 256 + 1, 2 * 256 + 1, 3 * 256 + 1 }
COORDS == { << 0, 0 >>, << 33, -1 >> }

RECURSIVE BodiesOf(_)
BodiesOf(k) ==
    IF k = 0 THEN { << >> }
    ELSE LET B == BodiesOf(k - 1) IN B \cup { b \o p : b \in B, p \in PIECES }

BE32(n) == << (n \div 16777216) % 256, (n \div 65536) % 256,
              (n \div 256) % 256, n % 256 >>

\* a declared length larger than every file of SIZES (16 MiB)
BIG_LEN == 16 * 1024 * 1024

LenChoices(body) == { 0, Len(body), 1 + Len(body), BIG_LEN }

Clip(s, n) == IF n <= 0 THEN << >> ELSE SubSeq(s, 1, Min(Len(s), n))

----------------------------------------------------------------------------
(* The file as bytes *)

\* offsets[] as read_region_header decodes it
Offsets(i) == IF i = TABLE_SLOT THEN entry ELSE 0

Byte(i) ==
    IF i < TABLE_ENTRIES * 4 THEN BE32(Offsets(i \div 4))[(i % 4) + 1]
    ELSE IF i >= DATA_POS /\ i < DATA_POS + Len(data) THEN data[i - DATA_POS + 1]
    ELSE 0

\* positions that can hold a non-zero byte
NonZero == ((TABLE_SLOT * 4) .. (TABLE_SLOT * 4 + 3))
           \cup (DATA_POS .. (DATA_POS + Len(data) - 1))

\* number of bytes f.read(n) returns at position pos (n = -1 reads to EOF)
ReadLen(pos, n) ==
    IF n = -1 THEN Max(0, fsize - pos) ELSE Max(0, Min(n, fsize - pos))

SetMin(S) == CHOOSE x \in S : \A y \in S : x <= y

\* bytes.find(b"\x1f\x8b") on file[a, b): index relative to a, or -1
FindGzip(a, b) ==
    LET S == { p \in NonZero : a <= p /\ p + 1 < b
                               /\ Byte(p) = 31 /\ Byte(p + 1) = 139 }
    IN IF S = {} THEN -1 ELSE SetMin(S) - a

\* bytes.find(b"\x78") on file[a, b)
FindX78(a, b) ==
    LET S == { p \in NonZero : a <= p /\ p < b /\ Byte(p) = 120 }
    IN IF S = {} THEN -1 ELSE SetMin(S) - a

\* zlib.decompress(file[a, b)) succeeds; trailing bytes are ignored
ZlibOK(a, b) ==
    /\ b - a >= 8
    /\ Byte(a) = 120 /\ Byte(a + 1) \in { 1, 156, 218 }
    /\ Byte(a + 2) = 3
    /\ \A k \in 3..6 : Byte(a + k) = 0
    /\ Byte(a + 7) = 1

\* first position in [a, b) holding a non-zero byte, or b
SkipZeros(a, b) ==
    LET S == { p \in NonZero : a <= p /\ p < b /\ Byte(p) # 0 }
    IN IF S = {} THEN b ELSE SetMin(S)

\* gzip.decompress(file[a, b)) succeeds: members separated by zero padding
RECURSIVE GzipOK(_, _)
GzipOK(a, b) ==
    \/ a >= b
    \/ /\ b - a >= 20
       /\ \A k \in 0..19 : Byte(a + k) = GZSTREAM[k + 1]
       /\ GzipOK(SkipZeros(a + 20, b), b)

----------------------------------------------------------------------------
(* Values *)

Err(kind, a, b) == [kind |-> kind, a |-> a, b |-> b]
Rd(kind, pos, n) == [kind |-> kind, pos |-> pos, n |-> n]
Bytes(a, b) == IF b > a THEN << "bytes", a, b >> ELSE << "bytes", 0, 0 >>
Plain(r) == << "plain", r[2], r[3] >>    \* output of decompressing range r
Attempt(m, on) == [method |-> m, on |-> on]
Artifact(name, content) == [name |-> name, content |-> content]
NoDiag == << >>

Other(m) == IF m = 1 THEN 2 ELSE 1
RunGzip(r) == GzipOK(r[2], r[3])
RunZlib(r) == ZlibOK(r[2], r[3])
Run(m, r) == IF m = 1 THEN RunGzip(r) ELSE RunZlib(r)

----------------------------------------------------------------------------
(* extract_chunk_raw_from_region *)

\* variant: compares against one sector instead of the whole header
HeaderTooShort_Mut(n) == n < SECTOR

HeaderTooShort(n) == n < HEADER_SIZE

chunk_index(x, z) == (x % 32) + (z % 32) * 32

\* variant: the empty-slot test never fires
IsAbsent_Mut(os) == os < 0

IsAbsent(os) == os = 0

\* variant: min in place of max
ShortRead_Mut(got, len) == got < Min(0, len)

ShortRead(got, len) == got < Max(0, len)

ScanStart(start) == Max(start, SECTOR)

\* variant: the window is not limited to SCAN_LIMIT
ScanEnd_Mut(file_end, scan_start) == file_end

ScanEnd(file_end, scan_start) == Min(file_end, scan_start + SCAN_LIMIT)

TailLen(file_end, cand) == Min(TAIL_LIMIT, file_end - cand)

\* variant: the loop looks twice as far ahead
ZlibSearch_Mut(a, blen, z_pos) ==
    LET S == { off \in z_pos .. (Min(z_pos + 2 * LOOKAHEAD, blen) - 1) :
                 /\ Byte(a + off) = 120
                 /\ off + 1 < blen
                 /\ Byte(a + off + 1) \in { 156, 1, 218 } }
    IN IF S = {} THEN -1 ELSE SetMin(S)

\* the loop over range(z_pos, min(z_pos+32, len(block))) on block = file[a, a+blen)
ZlibSearch(a, blen, z_pos) ==
    LET S == { off \in z_pos .. (Min(z_pos + LOOKAHEAD, blen) - 1) :
                 /\ Byte(a + off) = 120
                 /\ off + 1 < blen
                 /\ Byte(a + off + 1) \in { 156, 1, 218 } }
    IN IF S = {} THEN -1 ELSE SetMin(S)

\* variant: whichever signature comes first in the block wins
Candidate_Mut(scan_start, blen) ==
    LET gz_pos == FindGzip(scan_start, scan_start + blen)
        z_pos  == FindX78(scan_start, scan_start + blen)
        f      == IF z_pos # -1 THEN ZlibSearch(scan_start, blen, z_pos) ELSE -1
    IN IF gz_pos # -1 /\ (f = -1 \/ gz_pos < f) THEN << scan_start + gz_pos, 1 >>
       ELSE IF f # -1 THEN << scan_start + f, 2 >>
       ELSE << NONE, NONE >>

\* << candidate_pos, cand_type >> (1 = gzip, 2 = zlib), or << NONE, NONE >>
Candidate(scan_start, blen) ==
    LET gz_pos == FindGzip(scan_start, scan_start + blen)
        z_pos  == FindX78(scan_start, scan_start + blen)
    IN IF gz_pos # -1 THEN << scan_start + gz_pos, 1 >>
       ELSE IF z_pos # -1
            THEN LET f == ZlibSearch(scan_start, blen, z_pos)
                 IN IF f # -1 THEN << scan_start + f, 2 >> ELSE << NONE, NONE >>
            ELSE << NONE, NONE >>

\* open, read_region_header, chunk_index, slot decode, absent check
ReadHeader ==
    /\ pc = "extract"
    /\ reads' = Append(reads, Rd("header", 0, HEADER_SIZE))
    /\ IF HeaderTooShort(ReadLen(0, HEADER_SIZE))
       THEN /\ errors' = Append(errors, Err("IOError:HeaderTruncated", 0, 0))
            /\ pc' = "main"
            /\ UNCHANGED << offset_sector, sector_count >>
       ELSE LET e == Offsets(chunk_index(cx, cz)) IN
            /\ offset_sector' = e \div 256
            /\ sector_count' = e % 256
            /\ IF IsAbsent(e \div 256)
               THEN /\ errors' = Append(errors, Err("NotPresent", 0, 0))
                    /\ pc' = "main"
               ELSE /\ errors' = errors
                    /\ pc' = "standard"
    /\ UNCHANGED << fsize, entry, data, cx, cz, rawNbtOut, found, length,
                    compression, compressed, raw_sector, decompressed,
                    attempts, parsed, diag, reportEmitted, outWritten, artifacts >>

\* the standard read: size check, length header, payload
StandardRead ==
    /\ pc = "standard"
    /\ LET start == offset_sector * SECTOR
           e1    == IF start >= fsize
                    THEN Append(errors, Err("OffsetBeyondFile", start, fsize))
                    ELSE errors
           got4  == ReadLen(start, 4)
           L     == Byte(start) * 16777216 + Byte(start + 1) * 65536
                    + Byte(start + 2) * 256 + Byte(start + 3)
           got   == ReadLen(start + 4, L)
       IN IF got4 < 4
          THEN /\ reads' = Append(reads, Rd("length", start, 4))
               /\ errors' = Append(e1, Err("LengthHeaderShort", 0, 0))
               /\ pc' = "scan"
               /\ UNCHANGED << found, length, compression, compressed, raw_sector >>
          ELSE /\ reads' = reads \o << Rd("length", start, 4), Rd("payload", start + 4, L) >>
               /\ IF ShortRead(got, L)
                  THEN /\ errors' = Append(e1, Err("ChunkLengthMismatch", L, got))
                       /\ pc' = "scan"
                       /\ UNCHANGED << found, length, compression, compressed,
                                       raw_sector >>
                  ELSE /\ errors' = e1
                       /\ found' = TRUE
                       /\ length' = L
                       /\ compression' = IF got > 0 THEN Byte(start + 4) ELSE NONE
                       /\ compressed' = Bytes(start + 5, start + 4 + got)
                       /\ raw_sector' = Bytes(start, start + 4 + got)
                       /\ pc' = "main"
    /\ UNCHANGED << fsize, entry, data, cx, cz, rawNbtOut, offset_sector,
                    sector_count, decompressed, attempts, parsed,
                    diag, reportEmitted, outWritten, artifacts >>

\* the recovery scan: window read, magic search, trial read and decompress
RecoveryScan ==
    /\ pc = "scan"
    /\ LET start      == offset_sector * SECTOR
           scan_start == ScanStart(start)
           file_end   == fsize
           scan_end   == ScanEnd(file_end, scan_start)
           n          == scan_end - scan_start
           blen       == ReadLen(scan_start, n)
           cand       == Candidate(scan_start, blen)
           tlen       == TailLen(file_end, cand[1])
           tail       == Bytes(cand[1], cand[1] + ReadLen(cand[1], tlen))
       IN IF n < -1
          THEN \* f.read raises ValueError; the outer handler records it
               /\ errors' = Append(errors, Err("IOError:NegativeRead", n, 0))
               /\ UNCHANGED << reads, found, compression, compressed, decompressed >>
          ELSE IF cand[1] = NONE
          THEN /\ reads' = Append(reads, Rd("window", scan_start, n))
               /\ errors' = Append(errors, Err("NoCompressionHeaderFound", 0, 0))
               /\ UNCHANGED << found, compression, compressed, decompressed >>
          ELSE /\ reads' = reads \o << Rd("window", scan_start, n), Rd("tail", cand[1], tlen) >>
               /\ IF Run(cand[2], tail)
                  THEN /\ errors' = Append(errors, Err("Candidate", cand[1], cand[2]))
                       /\ found' = TRUE
                       /\ compression' = cand[2]
                       /\ compressed' = tail
                       /\ decompressed' = Plain(tail)
                  ELSE /\ errors' = errors \o << Err("Candidate", cand[1], cand[2]),
                                                Err("CandidateDecompressFailed", 0, 0) >>
                       /\ UNCHANGED << found, compression, compressed, decompressed >>
    /\ pc' = "main"
    /\ UNCHANGED << fsize, entry, data, cx, cz, rawNbtOut, offset_sector,
                    sector_count, length, raw_sector, attempts, parsed,
                    diag, reportEmitted, outWritten, artifacts >>

----------------------------------------------------------------------------
(* main *)

ParseOutcomes == { "ok", "none", "raise" }

\* info.get('errors', [])[:10]
Capped(es) == SubSeq(es, 1, Min(Len(es), DIAG_CAP))

Diag == << [found |-> found, offset_sector |-> offset_sector,
            sector_count |-> sector_count, length |-> length,
            compression_byte |-> compression, errors |-> Capped(errors)] >>

\* files written after parse_nbt_bytes returned (o = "ok" or "none") or raised
AfterParse(o, bytes) ==
    IF o = "raise"
    THEN IF rawNbtOut THEN { Artifact("raw_nbt_out", bytes) }
                      ELSE { Artifact("decompressed_nbt", bytes) }
    ELSE IF rawNbtOut THEN { Artifact("raw_nbt_out", bytes) } ELSE {}

\* diag is built; the not-found branch prints it and returns
MainReport ==
    /\ pc = "main"
    /\ diag' = Diag
    /\ IF ~found
       THEN /\ reportEmitted' = TRUE
            /\ IF decompressed # NoRange
               THEN \E o \in ParseOutcomes :
                       /\ parsed' = o
                       /\ outWritten' = (o # "raise")
                       /\ artifacts' = IF o = "raise" /\ ~rawNbtOut THEN artifacts
                                       ELSE artifacts \cup AfterParse(o, decompressed)
               ELSE UNCHANGED << parsed, outWritten, artifacts >>
            /\ pc' = "done"
       ELSE /\ pc' = "decompress"
            /\ UNCHANGED << reportEmitted, parsed, outWritten, artifacts >>
    /\ UNCHANGED << fsize, entry, data, cx, cz, rawNbtOut, found, errors,
                    offset_sector, sector_count, length, compression,
                    compressed, raw_sector, decompressed, reads, attempts >>

\* variant: a failed hinted method is followed by the other method
FirstTry_Mut(comp_type, payload) ==
    LET m1 == IF comp_type = 2 THEN 2 ELSE 1
        m2 == IF m1 = 1 THEN 2 ELSE 1
    IN IF Run(m1, payload)
       THEN << << Attempt(m1, "payload") >>, m1 >>
       ELSE << << Attempt(m1, "payload"), Attempt(m2, "payload") >>,
               IF Run(m2, payload) THEN m2 ELSE NONE >>

\* decompress calls on the payload: << attempts, method that succeeded or NONE >>
FirstTry(comp_type, payload) ==
    IF comp_type \in { 1, 2 }
    THEN << << Attempt(comp_type, "payload") >>,
            IF Run(comp_type, payload) THEN comp_type ELSE NONE >>
    ELSE IF RunGzip(payload)
         THEN << << Attempt(1, "payload") >>, 1 >>
         ELSE << << Attempt(1, "payload"), Attempt(2, "payload") >>,
                 IF RunZlib(payload) THEN 2 ELSE NONE >>

\* the slice of raw_sector_data the fallback tries: << range, ctype >>
RawCandidate(raw) ==
    LET gz   == FindGzip(raw[2], raw[3])
        zpos == FindX78(raw[2], raw[3])
    IN IF gz # -1 THEN << Bytes(raw[2] + gz, raw[3]), 1 >>
       ELSE IF zpos # -1 THEN << Bytes(raw[2] + zpos, raw[3]), 2 >>
       ELSE << NoRange, NONE >>

\* decompression of the payload with its fallbacks; saves the payload when all fail
MainDecompress ==
    /\ pc = "decompress"
    /\ LET first  == FirstTry(compression, compressed)
           hasRaw == raw_sector # NoRange /\ raw_sector[3] > raw_sector[2]
           rc     == IF hasRaw THEN RawCandidate(raw_sector) ELSE << NoRange, NONE >>
       IN IF first[2] # NONE
          THEN /\ attempts' = first[1]
               /\ compression' = first[2]
               /\ decompressed' = Plain(compressed)
               /\ pc' = "parse"
               /\ UNCHANGED artifacts
          ELSE IF rc[1] # NoRange /\ Run(rc[2], rc[1])
          THEN /\ attempts' = Append(first[1], Attempt(rc[2], "raw"))
               /\ compression' = rc[2]
               /\ decompressed' = Plain(rc[1])
               /\ pc' = "parse"
               /\ UNCHANGED artifacts
          ELSE /\ attempts' = IF rc[1] # NoRange
                              THEN Append(first[1], Attempt(rc[2], "raw"))
                              ELSE first[1]
               /\ decompressed' = NoRange
               /\ artifacts' = artifacts \cup { Artifact("chunk_compressed", compressed) }
               /\ pc' = "done"
               /\ UNCHANGED compression
    /\ UNCHANGED << fsize, entry, data, cx, cz, rawNbtOut, found, errors,
                    offset_sector, sector_count, length, compressed, raw_sector,
                    reads, parsed, diag, reportEmitted, outWritten >>

\* parse_nbt_bytes and the writes that follow it
MainParse ==
    /\ pc = "parse"
    /\ \E o \in ParseOutcomes :
          /\ parsed' = o
          /\ outWritten' = (o # "raise")
          /\ reportEmitted' = (o # "raise")
          /\ artifacts' = artifacts \cup AfterParse(o, decompressed)
    /\ pc' = "done"
    /\ UNCHANGED << fsize, entry, data, cx, cz, rawNbtOut, found, errors,
                    offset_sector, sector_count, length, compression,
                    compressed, raw_sector, decompressed, reads, attempts, diag >>

----------------------------------------------------------------------------
(* Specification *)

Init ==
    /\ fsize \in SIZES
    /\ entry \in ENTRIES
    /\ \E body \in BodiesOf(MaxPieces), tag \in TAGS :
          \E L \in LenChoices(body) :
             data = Clip(BE32(L) \o << tag >> \o body, fsize - DATA_POS)
    /\ \E c \in COORDS : cx = c[1] /\ cz = c[2]
    /\ rawNbtOut \in BOOLEAN
    /\ pc = "extract"
    /\ found = FALSE
    /\ errors = << >>
    /\ offset_sector = NONE
    /\ sector_count = NONE
    /\ length = NONE
    /\ compression = NONE
    /\ compressed = NoRange
    /\ raw_sector = NoRange
    /\ decompressed = NoRange
    /\ reads = << >>
    /\ attempts = << >>
    /\ parsed = "unparsed"
    /\ diag = NoDiag
    /\ reportEmitted = FALSE
    /\ outWritten = FALSE
    /\ artifacts = {}

Next ==
    \/ ReadHeader
    \/ StandardRead
    \/ RecoveryScan
    \/ MainReport
    \/ MainDecompress
    \/ MainParse

Spec == Init /\ [][Next]_vars

----------------------------------------------------------------------------
(* Vocabulary of the properties *)

Returned == pc \in { "main", "decompress", "parse", "done" }
Present == offset_sector # NONE /\ offset_sector > 0
Start == offset_sector * SECTOR
HasErr(kind) == \E i \in 1..Len(errors) : errors[i].kind = kind
ErrsOf(kind) == { errors[i] : i \in { j \in 1..Len(errors) : errors[j].kind = kind } }
ReadsOf(kind) == { reads[i] : i \in { j \in 1..Len(reads) : reads[j].kind = kind } }
Got(r) == ReadLen(r.pos, r.n)
DeclaredLen == Byte(Start) * 16777216 + Byte(Start + 1) * 65536
               + Byte(Start + 2) * 256 + Byte(Start + 3)
ScanStartOf == IF Start > 4096 THEN Start ELSE 4096
WindowLimit == Min(fsize, ScanStartOf + 4 * 1024 * 1024)
Scanned == ReadsOf("window") # {}
WinFrom == ScanStartOf
WinTo == WindowLimit
GzAt(p) == WinFrom <= p /\ p + 1 < WinTo /\ Byte(p) = 31 /\ Byte(p + 1) = 139
ZPairAt(p) == /\ WinFrom <= p /\ p + 1 < WinTo /\ Byte(p) = 120
              /\ Byte(p + 1) \in { 156, 1, 218 }
X78At(p) == WinFrom <= p /\ p < WinTo /\ Byte(p) = 120
NoGzInWindow == \A p \in NonZero : ~GzAt(p)
SlotAbsent == fsize >= 8192 /\ (Offsets(chunk_index(cx, cz)) \div 256) = 0

----------------------------------------------------------------------------
(* C1: for a container of at least 8192 bytes whose slot for (cx, cz) has  *)
(* sector_offset 0, the extraction returns found = false with exactly the  *)
(* one diagnostic "Chunk not present (offset 0).", issues no read that     *)
(* reaches a position >= 8192, and main writes no side artifact.           *)
C1_AbsentEntry ==
    (SlotAbsent /\ Returned) =>
        /\ found = FALSE
        /\ errors = << Err("NotPresent", 0, 0) >>
        /\ \A i \in 1..Len(reads) : reads[i].n >= 0 /\ reads[i].pos + reads[i].n <= 8192
        /\ ReadsOf("length") \cup ReadsOf("window") \cup ReadsOf("tail") = {}
        /\ artifacts = {}

C1_Witness == SlotAbsent /\ pc = "done" /\ entry % 256 = 5 /\ cx = 33

(* C2: when the declared length L of a present entry exceeds the bytes     *)
(* available after the length header, the standard path appends the length *)
(* mismatch diagnostic naming L and the actual count and leaves found      *)
(* false, and the recovery scan (window read and magic search) has run     *)
(* by the time the extraction returns.                                     *)
C2_Pre == Present /\ Start + 4 <= fsize /\ DeclaredLen > fsize - (Start + 4)

C2_LengthMismatch ==
    (C2_Pre /\ pc # "standard") =>
        /\ ErrsOf("ChunkLengthMismatch")
             = { Err("ChunkLengthMismatch", DeclaredLen, fsize - (Start + 4)) }
        /\ pc = "scan" => (found = FALSE /\ length = NONE /\ compressed = NoRange)
        /\ Returned =>
              /\ Scanned
              /\ HasErr("Candidate") \/ HasErr("NoCompressionHeaderFound")
              /\ found => (HasErr("Candidate") /\ length = NONE)

C2_Witness == C2_Pre /\ pc = "done" /\ DeclaredLen = BIG_LEN /\ ~found

(* C3 as stated: every candidate is >= scan_start and neither the window   *)
(* read nor the trial read reaches min(file_size, scan_start + 4 MiB).     *)
C3_Original ==
    Present =>
        /\ \A e \in ErrsOf("Candidate") : e.a >= ScanStartOf
        /\ \A r \in ReadsOf("window") \cup ReadsOf("tail") :
              Got(r) > 0 => r.pos + Got(r) <= WindowLimit

(* C3 amended: every candidate is >= scan_start; the window read starts at *)
(* scan_start and does not reach min(file_size, scan_start + 4 MiB); the   *)
(* trial read starts at the candidate and does not reach                   *)
(* min(file_size, candidate + 8 MiB).                                      *)
C3_ScanBounds ==
    Present =>
        /\ \A e \in ErrsOf("Candidate") : e.a >= ScanStartOf
        /\ \A r \in ReadsOf("window") :
              /\ r.pos = ScanStartOf
              /\ IF r.n >= 0 THEN r.pos + r.n <= WindowLimit ELSE Got(r) = 0
        /\ \A r \in ReadsOf("tail") :
              /\ \E e \in ErrsOf("Candidate") : e.a = r.pos
              /\ r.n >= 0
              /\ r.pos + r.n <= Min(fsize, r.pos + 8 * 1024 * 1024)

C3_Witness ==
    /\ pc = "done"
    /\ \E r \in ReadsOf("window") : r.n = 4 * 1024 * 1024 /\ r.pos + r.n < fsize
    /\ \E r \in ReadsOf("tail") : r.n = 8 * 1024 * 1024 /\ r.pos + r.n < fsize

(* C4: whenever the scan window contains the gzip magic 1F 8B, the         *)
(* candidate is the leftmost 1F 8B, tagged gzip, also when a valid zlib    *)
(* pair occurs at a smaller position.                                      *)
C4_GzipPriority ==
    (Returned /\ Scanned) =>
        \A p \in NonZero :
            (GzAt(p) /\ \A q \in NonZero : q < p => ~GzAt(q))
                => ErrsOf("Candidate") = { Err("Candidate", p, 1) }

C4_Witness ==
    /\ pc = "done" /\ Scanned
    /\ \E p, q \in NonZero : q < p /\ ZPairAt(q) /\ GzAt(p)

(* C5: for a file shorter than 8192 bytes the extraction stops with the    *)
(* header-truncated error: no slot is decoded, only the header read is     *)
(* issued, and no entry-level field (offset_sector, sector_count, length,  *)
(* compression) is set in the result or the report.                        *)
C5_HeaderTruncated ==
    (fsize < 8192 /\ pc # "extract") =>
        /\ reads = << Rd("header", 0, 8192) >>
        /\ errors = << Err("IOError:HeaderTruncated", 0, 0) >>
        /\ found = FALSE
        /\ offset_sector = NONE /\ sector_count = NONE
        /\ length = NONE /\ compression = NONE
        /\ compressed = NoRange /\ raw_sector = NoRange
        /\ diag # NoDiag =>
              /\ diag[1].offset_sector = NONE /\ diag[1].sector_count = NONE
              /\ diag[1].length = NONE /\ diag[1].compression_byte = NONE
        /\ artifacts = {}

C5_Witness == fsize < 8192 /\ pc = "done" /\ entry = 2 * 256 + 1 /\ cx = 33

(* C6: on every terminating path of main the diagnostic report has been   *)
(* printed or written to the output file before main returns.              *)
C6_ReportAlways == pc = "done" => reportEmitted

(* C7: each terminal failure branch writes exactly one side artifact: the  *)
(* raw compressed bytes when decompression failed after every fallback     *)
(* (standard path or scan candidate), the decompressed bytes when          *)
(* structured parsing failed; never both, never none.                      *)
DecompressFailed ==
    HasErr("CandidateDecompressFailed") \/ (found /\ decompressed = NoRange)

ParseFailed == parsed \in { "none", "raise" }

C7_OneArtifact ==
    pc = "done" =>
        /\ DecompressFailed =>
              /\ Cardinality(artifacts) = 1
              /\ \A a \in artifacts :
                    a.name = "chunk_compressed" /\ a.content[1] = "bytes"
        /\ ParseFailed =>
              /\ Cardinality(artifacts) = 1
              /\ \A a \in artifacts :
                    a.name \in { "decompressed_nbt", "raw_nbt_out" }
                    /\ a.content = decompressed

(* C8 as stated: with a hint (tag 1 or 2) the hinted method is tried       *)
(* first, then the other method on the same bytes, then the re-scan of the *)
(* raw block; the terminal failure comes only after all three.             *)
Hint == diag[1].compression_byte
Hinted == found /\ pc \in { "parse", "done" } /\ Hint \in { 1, 2 }
Terminal == found /\ pc = "done" /\ decompressed = NoRange
RawHasSignature ==
    \E p \in NonZero :
        /\ raw_sector # NoRange /\ raw_sector[2] <= p /\ p < raw_sector[3]
        /\ \/ Byte(p) = 120
           \/ Byte(p) = 31 /\ p + 1 < raw_sector[3] /\ Byte(p + 1) = 139

LeftmostPair(p) == ZPairAt(p) /\ \A q \in NonZero : q < p => ~ZPairAt(q)

C9_Original ==
    (Returned /\ Scanned /\ NoGzInWindow) =>
        /\ \A p \in NonZero :
              LeftmostPair(p) => ErrsOf("Candidate") = { Err("Candidate", p, 2) }
        /\ HasErr("NoCompressionHeaderFound") => \A p \in NonZero : ~ZPairAt(p)

(* C9 amended: with no gzip magic in the window, only the 32 bytes that    *)
(* start at the first 0x78 of the window are examined: the candidate is    *)
(* the leftmost pair (0x78 followed by 9C, 01 or DA) that starts there,    *)
(* and the no-header diagnostic is recorded exactly when no pair starts    *)
(* there, even if a pair occurs later in the window.                       *)
First78(z) == X78At(z) /\ \A y \in NonZero : y < z => ~X78At(y)
InReach(p) == ZPairAt(p) /\ \E z \in NonZero : First78(z) /\ p < z + 32

C9_PairNearFirst78 ==
    (Returned /\ Scanned /\ NoGzInWindow) =>
        /\ \A p \in NonZero :
              (InReach(p) /\ \A q \in NonZero : q < p => ~InReach(q))
                  => ErrsOf("Candidate") = { Err("Candidate", p, 2) }
        /\ HasErr("NoCompressionHeaderFound") <=> \A p \in NonZero : ~InReach(p)
        /\ HasErr("NoCompressionHeaderFound") => ErrsOf("Candidate") = {}

C9_Witness ==
    /\ pc = "done" /\ Scanned /\ NoGzInWindow
    /\ \E p \in NonZero : ZPairAt(p) /\ ~InReach(p)
    /\ HasErr("NoCompressionHeaderFound")

(* C10: a present entry whose byte offset is at or beyond end-of-file      *)
(* records the offset-beyond-file diagnostic, goes through the length      *)
(* header read and the scan of the empty window, records the no-header     *)
(* diagnostic and returns found = false without an I/O-error diagnostic.   *)
C10_OffsetBeyondFile ==
    (Present /\ Start >= fsize /\ Returned) =>
        /\ HasErr("OffsetBeyondFile")
        /\ ReadsOf("length") # {}
        /\ Scanned
        /\ HasErr("NoCompressionHeaderFound")
        /\ found = FALSE
        /\ ~HasErr("IOError:NegativeRead")

====
